---- MODULE Spec2Model ----
(***************************************************************************)
(* Kernel based negative samplers of src/sampler/kernel.py:                *)
(* SphereSampler, RFFSampler (dense) and SphereSamplerAppr, RffSamplerAppr *)
(* (approximate).  One sampler instance is modelled: its attributes, the   *)
(* process-wide random generator, and the outcome of the last call.        *)
(*                                                                         *)
(* Tensors.  A tensor of vectors ("VT") is [lead, rows, src]: the leading  *)
(* shape, the last-dimension vectors in row-major order, and for each row  *)
(* the 0-based row of the tensor it was taken from (instrumentation).  A   *)
(* numeric tensor ("NT") is [shape, data, dtype] with row-major data.      *)
(*                                                                         *)
(* Numbers.  Embeddings are small integer vectors.  A random Fourier       *)
(* projection <v/|v|, w> is a real angle; the model keeps its quadrant     *)
(* (a multiple of pi/2) so that cos and sin are in {-1, 0, 1}.  Kernel     *)
(* features are kept in units of 1/sqrt(R), RFF logits in units of 1/R.    *)
(* A logarithm is kept symbolically: [kind, num, den] is log(num/den).     *)
(***************************************************************************)
EXTENDS Integers, Sequences, FiniteSets, TLC

VARIABLES cls, scorer, num_items, alive, attrs, item_vec, kernel_item_vec,
          rng, ret, prev, tally, last_embs

vars == <<cls, scorer, num_items, alive, attrs, item_vec, kernel_item_vec,
          rng, ret, prev, tally, last_embs>>

(* ------------------------------ bounds -------------------------------- *)
MaxItems == 2
MaxNeg == 2
MaxCalls == 2
NumRandomFeatures == 1

(* RFFSampler.nu, the scale of the projections. *)
Nu == 4

Vecs == {<<0, 0>>, <<1, -1>>, <<-1, 0>>}
Leads == {<<1>>, <<2>>}
GenStates == {0, 1, 2, 3}

Classes == {"SphereSampler", "RFFSampler", "SphereSamplerAppr", "RffSamplerAppr"}
DenseClasses == {"SphereSampler", "RFFSampler"}
ApprClasses == {"SphereSamplerAppr", "RffSamplerAppr"}
Scorers == {"InnerProductScorer", "EuclideanScorer"}

(* ------------------------------ helpers ------------------------------- *)
RECURSIVE Prod(_)
Prod(s) == IF s = <<>> THEN 1 ELSE Head(s) * Prod(Tail(s))

RECURSIVE SumSeq(_)
SumSeq(s) == IF s = <<>> THEN 0 ELSE Head(s) + SumSeq(Tail(s))

Dot(a, b) == SumSeq([i \in 1..Len(a) |-> a[i] * b[i]])

SqDist(a, b) == SumSeq([i \in 1..Len(a) |-> (a[i] - b[i]) * (a[i] - b[i])])

Last(s) == s[Len(s)]

IsZero(v) == \A i \in 1..Len(v) : v[i] = 0

Cos4(a) == <<1, 0, -1, 0>>[(a % 4) + 1]

Sin4(a) == <<0, 1, 0, -1>>[(a % 4) + 1]

(* The process-wide generator: a state, the next state (one cycle through *)
(* all the states), and the value a draw yields (the state it is made     *)
(* in).  torch.manual_seed sets the state.                                *)
GenNext(s) == <<2, 3, 1, 0>>[s + 1]

RECURSIVE GenAfter(_, _)
GenAfter(s, n) == IF n = 0 THEN s ELSE GenAfter(GenNext(s), n - 1)

GenDraws(s, n) == [i \in 1..n |-> GenAfter(s, i - 1)]

(* ------------------------------ tensors ------------------------------- *)
NoVT == [lead |-> <<>>, rows |-> <<>>, src |-> <<>>]

NoNT == [shape |-> <<>>, data |-> <<>>, dtype |-> "none"]

(* A tensor of vectors as the training loop passes it: row i is row i.    *)
Tensor(lead, rows) ==
    [lead |-> lead, rows |-> rows, src |-> [i \in 1..Len(rows) |-> i - 1]]

(* t.reshape(shp), where one entry of shp may be -1.                      *)
Reshape(t, shp) ==
    LET known == Prod([i \in 1..Len(shp) |-> IF shp[i] = -1 THEN 1 ELSE shp[i]])
        n == Len(t.data)
    IN  [t EXCEPT !.shape =
            [i \in 1..Len(shp) |-> IF shp[i] = -1 THEN n \div known ELSE shp[i]]]

(* table[index]: one row of the table per entry of the index tensor.      *)
IndexRows(table, index) ==
    [lead |-> index.shape,
     rows |-> [p \in 1..Len(index.data) |-> table.rows[index.data[p] + 1]],
     src |-> [p \in 1..Len(index.data) |-> table.src[index.data[p] + 1]]]

(* torch.log of num/den, and log(a) - log(b), kept symbolically.          *)
TorchLog(num, den) ==
    [kind |-> IF num > 0 THEN "finite" ELSE IF num = 0 THEN "-inf" ELSE "nan",
     num |-> num, den |-> den]

LogSub(a, b) ==
    [kind |-> IF a > 0 /\ b > 0 THEN "finite"
              ELSE IF a = 0 /\ b > 0 THEN "-inf"
              ELSE IF a > 0 /\ b = 0 THEN "inf" ELSE "nan",
     num |-> a, den |-> b]

(* ------------------------------ scorer -------------------------------- *)
(* The scorer is an external collaborator: pairwise similarity of two     *)
(* batches of vectors, broadcasting over the leading batch dimensions.    *)
(* pairs records which (query row, item row) each entry was scored on.    *)
Score(sc, a, b) == IF sc = "InnerProductScorer" THEN Dot(a, b) ELSE -SqDist(a, b)

ScorerCall(sc, query, items) ==
    LET Q == Len(query.rows)
        w == IF Len(items.lead) = Len(query.lead) + 1
             THEN Last(items.lead) ELSE Len(items.rows)
        qi(p) == ((p - 1) \div w) + 1
        ii(p) == IF Len(items.lead) = Len(query.lead) + 1
                 THEN p ELSE ((p - 1) % w) + 1
    IN  [shape |-> query.lead \o <<w>>,
         data |-> [p \in 1..(Q * w) |-> Score(sc, query.rows[qi(p)], items.rows[ii(p)])],
         dtype |-> "float",
         pairs |-> [p \in 1..(Q * w) |-> <<query.src[qi(p)], items.src[ii(p)]>>]]

(* --------------------------- kernel transform ------------------------- *)
(* F.normalize, a fresh normal projection per row and feature, the score  *)
(* against it, then cat(cos, sin).  A zero row stays zero under           *)
(* normalize, so its projections are 0; any other row's projection is     *)
(* whatever the generator yields.                                         *)
RffFeatures(v, nrf, g) ==
    LET n == Len(v.rows)
        draws == GenDraws(g, n * nrf)
        ang(i, r) == IF IsZero(v.rows[i]) THEN 0 ELSE draws[(i - 1) * nrf + r]
    IN  [out |-> [lead |-> v.lead,
                  rows |-> [i \in 1..n |->
                              [c \in 1..(2 * nrf) |->
                                 IF c <= nrf THEN Cos4(ang(i, c))
                                 ELSE Sin4(ang(i, c - nrf))]],
                  src |-> v.src],
         rng |-> GenAfter(g, n * nrf)]

kernel_vec(vec, temp, num_random_features, g) ==
    RffFeatures(vec, num_random_features, g)

kernel_func(vec, g) == RffFeatures(vec, NumRandomFeatures, g)

(* ------------------------------ sampling ------------------------------ *)
RowOf(t, q) == SubSeq(t.data, (q - 1) * Last(t.shape) + 1, q * Last(t.shape))

(* One draw of a row's distribution: the first index whose cumulative     *)
(* weight exceeds the drawn fraction u/|GenStates| of the row's total.    *)
PickIndex(w, u) ==
    LET M == Cardinality(GenStates)
        hit(i) == SumSeq(SubSeq(w, 1, i)) * M > u * SumSeq(w)
    IN  (CHOOSE i \in 1..Len(w) : hit(i) /\ \A j \in 1..(i - 1) : ~hit(j)) - 1

(* torch.multinomial(logits, num_samples, replacement=True): rejects a    *)
(* negative weight and a row whose weights sum to nothing.                *)
multinomial(logits, num_samples, g) ==
    LET Q == logits.shape[1]
        invalid == \/ num_samples <= 0
                   \/ \E p \in 1..Len(logits.data) : logits.data[p] < 0
                   \/ \E q \in 1..Q : SumSeq(RowOf(logits, q)) <= 0
        draws == GenDraws(g, Q * num_samples)
    IN  IF invalid
        THEN [err |-> "RuntimeError", out |-> NoNT, rng |-> g]
        ELSE [err |-> "none",
              out |-> [shape |-> <<Q, num_samples>>,
                       data |-> [p \in 1..(Q * num_samples) |->
                                   PickIndex(RowOf(logits, ((p - 1) \div num_samples) + 1),
                                             draws[p])],
                       dtype |-> "int"],
              rng |-> GenAfter(g, Q * num_samples)]

(* torch.randint(0, high, size): each entry uniform over [0, high).       *)
randint(high, size, g) ==
    LET n == Prod(size)
        draws == GenDraws(g, n)
    IN  [out |-> [shape |-> size,
                  data |-> [p \in 1..n |-> draws[p] % high],
                  dtype |-> "int"],
         rng |-> GenAfter(g, n)]

(* A faulty zeros_like: the placeholder is the positive items themselves. *)
zeros_like_returns_input(t, dtype) == [t EXCEPT !.dtype = dtype]

zeros_like(t, dtype) ==
    [shape |-> t.shape, data |-> [p \in 1..Len(t.data) |-> 0], dtype |-> dtype]

AddOne(t) == [t EXCEPT !.data = [p \in 1..Len(t.data) |-> t.data[p] + 1]]

(* ------------------------------ the calls ----------------------------- *)
(* What a call leaves behind: its arguments, what it returned or raised,  *)
(* and instrumentation of what it computed on the way (the logits, the    *)
(* table they were computed from, the pairs the scorer was run on, the    *)
(* kernel transforms made) and the generator state it started from,      *)
(* which the caller fills in.  For update, table is the table replaced.   *)
Call(op, err, query, num_neg, pos_items, out, gl) ==
    [op |-> op, err |-> err, query |-> query, num_neg |-> num_neg,
     pos_items |-> pos_items, out |-> out, logits |-> gl.out,
     table |-> gl.table, kcalls |-> gl.kcalls, rng0 |-> 0]

NoLogits(kcalls, g) ==
    [err |-> "none", out |-> NoNT @@ [pairs |-> <<>>], table |-> NoVT,
     kcalls |-> kcalls, unit |-> 1, rng |-> g]

Raise(err, kcalls, g) == [NoLogits(kcalls, g) EXCEPT !.err = err]

NoCall == Call("none", "none", NoVT, 0, NoNT, <<>>, NoLogits(<<>>, 0))

(* Sampler.__init__ stores num_items and the scorer.  KernelSampler's     *)
(* constructor asserts the scorer's type first; KernelSamplerAppr's does  *)
(* not.  err says whether an instance came to exist; when none did,       *)
(* num_items and scorer are only the arguments that were passed.          *)
Sampler_init(n, scorer_fn) == [num_items |-> n, scorer |-> scorer_fn, err |-> "none"]

KernelSampler_init(n, scorer_fn) ==
    IF scorer_fn # "InnerProductScorer"
    THEN [num_items |-> n, scorer |-> scorer_fn, err |-> "AssertionError"]
    ELSE Sampler_init(n, scorer_fn)

KernelSamplerAppr_init(n, scorer_fn) == Sampler_init(n, scorer_fn)

Construct(c, n, scorer_fn) ==
    IF c \in DenseClasses THEN KernelSampler_init(n, scorer_fn)
    ELSE KernelSamplerAppr_init(n, scorer_fn)

(* update: the new attributes, the generator after, the transforms made.  *)
KernelSampler_update(self, item_embs, g) ==
    [self |-> [self EXCEPT !.item_vec = item_embs, !.attrs = @ \cup {"item_vec"}],
     kcalls |-> <<>>, rng |-> g]

RFFSampler_update(self, item_embs, g) ==
    LET kv == kernel_vec(item_embs, Nu, NumRandomFeatures, g)
    IN  [self |-> [self EXCEPT !.item_vec = kv.out, !.attrs = @ \cup {"item_vec"}],
         kcalls |-> <<"item">>, rng |-> kv.rng]

KernelSamplerAppr_update(self, item_embs, g) ==
    [self |-> [self EXCEPT !.item_vec = item_embs, !.attrs = @ \cup {"item_vec"}],
     kcalls |-> <<>>, rng |-> g]

(* A faulty update: the cached kernel table is built by the first update  *)
(* only.                                                                  *)
RffSamplerAppr_update_keeps_cache(self, item_embs, g) ==
    LET up == KernelSamplerAppr_update(self, item_embs, g)
        kv == kernel_func(up.self.item_vec, up.rng)
    IN  IF "kernel_item_vec" \in self.attrs
        THEN [self |-> up.self, kcalls |-> up.kcalls, rng |-> up.rng]
        ELSE [self |-> [up.self EXCEPT !.kernel_item_vec = kv.out,
                                       !.attrs = @ \cup {"kernel_item_vec"}],
              kcalls |-> up.kcalls \o <<"item">>, rng |-> kv.rng]

RffSamplerAppr_update(self, item_embs, g) ==
    LET up == KernelSamplerAppr_update(self, item_embs, g)
        kv == kernel_func(up.self.item_vec, up.rng)
    IN  [self |-> [up.self EXCEPT !.kernel_item_vec = kv.out,
                                  !.attrs = @ \cup {"kernel_item_vec"}],
         kcalls |-> up.kcalls \o <<"item">>, rng |-> kv.rng]

update(self, item_embs, g) ==
    CASE self.cls = "SphereSampler" -> KernelSampler_update(self, item_embs, g)
      [] self.cls = "RFFSampler" -> RFFSampler_update(self, item_embs, g)
      [] self.cls = "SphereSamplerAppr" -> KernelSamplerAppr_update(self, item_embs, g)
      [] self.cls = "RffSamplerAppr" -> RffSamplerAppr_update(self, item_embs, g)

(* get_logits.  Reading an attribute update never set raises              *)
(* AttributeError at the point of the read.                               *)
Sphere(x) == 100 * x * x + 1

SphereSampler_get_logits(self, query, g) ==
    IF "item_vec" \notin self.attrs THEN Raise("AttributeError", <<>>, g)
    ELSE LET logits == ScorerCall(self.scorer, query, self.item_vec)
         IN  [err |-> "none",
              out |-> [logits EXCEPT !.data = [p \in 1..Len(@) |-> Sphere(@[p])]],
              table |-> self.item_vec, kcalls |-> <<>>, unit |-> 1, rng |-> g]

RFFSampler_get_logits(self, query, g) ==
    LET kernel_query_vec == kernel_vec(query, Nu, NumRandomFeatures, g)
    IN  IF "item_vec" \notin self.attrs
        THEN Raise("AttributeError", <<"query">>, kernel_query_vec.rng)
        ELSE [err |-> "none",
              out |-> ScorerCall(self.scorer, kernel_query_vec.out, self.item_vec),
              table |-> self.item_vec, kcalls |-> <<"query">>,
              unit |-> NumRandomFeatures, rng |-> kernel_query_vec.rng]

(* A faulty get_logits: scores the query against the whole table, then    *)
(* picks the sampled entries out of the full matrix.                      *)
SphereSamplerAppr_get_logits_full(self, query, sampled_items, g) ==
    IF "item_vec" \notin self.attrs THEN Raise("AttributeError", <<>>, g)
    ELSE LET full == ScorerCall(self.scorer, query, self.item_vec)
             N == Len(self.item_vec.rows)
             k == Last(sampled_items.shape)
             at(p) == ((p - 1) \div k) * N + sampled_items.data[p] + 1
         IN  [err |-> "none",
              out |-> [shape |-> sampled_items.shape,
                       data |-> [p \in 1..Len(sampled_items.data) |->
                                   Sphere(full.data[at(p)])],
                       dtype |-> "float",
                       pairs |-> full.pairs],
              table |-> self.item_vec, kcalls |-> <<>>, unit |-> 1, rng |-> g]

SphereSamplerAppr_get_logits(self, query, sampled_items, g) ==
    IF "item_vec" \notin self.attrs THEN Raise("AttributeError", <<>>, g)
    ELSE LET logits == ScorerCall(self.scorer, query,
                                  IndexRows(self.item_vec, sampled_items))
         IN  [err |-> "none",
              out |-> [logits EXCEPT !.data = [p \in 1..Len(@) |-> Sphere(@[p])]],
              table |-> self.item_vec, kcalls |-> <<>>, unit |-> 1, rng |-> g]

(* A faulty get_logits: transforms the item table again in every forward  *)
(* call.                                                                  *)
RffSamplerAppr_get_logits_retransform(self, query, sampled_items, g) ==
    LET query_kernel == kernel_func(query, g)
        item_kernel == kernel_func(self.item_vec, query_kernel.rng)
    IN  IF "item_vec" \notin self.attrs
        THEN Raise("AttributeError", <<"query">>, query_kernel.rng)
        ELSE [err |-> "none",
              out |-> ScorerCall(self.scorer, query_kernel.out,
                                 IndexRows(item_kernel.out, sampled_items)),
              table |-> item_kernel.out, kcalls |-> <<"query", "item">>,
              unit |-> NumRandomFeatures, rng |-> item_kernel.rng]

RffSamplerAppr_get_logits(self, query, sampled_items, g) ==
    LET query_kernel == kernel_func(query, g)
    IN  IF "kernel_item_vec" \notin self.attrs
        THEN Raise("AttributeError", <<"query">>, query_kernel.rng)
        ELSE [err |-> "none",
              out |-> ScorerCall(self.scorer, query_kernel.out,
                                 IndexRows(self.kernel_item_vec, sampled_items)),
              table |-> self.kernel_item_vec, kcalls |-> <<"query">>,
              unit |-> NumRandomFeatures, rng |-> query_kernel.rng]

(* forward.  The result: the call record and the generator after.         *)
Returned(query, num_neg, pos_items, pos_dtype, neg_items, neg_prob, gl) ==
    Call("forward", "none", query, num_neg, pos_items,
         IF pos_items # NoNT
         THEN <<zeros_like(pos_items, pos_dtype), neg_items, neg_prob>>
         ELSE <<neg_items, neg_prob>>,
         gl)

KernelSampler_get_logits(self, query, g) ==
    IF self.cls = "SphereSampler" THEN SphereSampler_get_logits(self, query, g)
    ELSE RFFSampler_get_logits(self, query, g)

(* A faulty log-weight: the weight is not multiplied by num_neg.          *)
DenseNegProb_without_num_neg(logits, neg_items, num_neg) ==
    LET N == Last(logits.shape)
        q(p) == ((p - 1) \div num_neg) + 1
    IN  [shape |-> neg_items.shape,
         data |-> [p \in 1..Len(neg_items.data) |->
                     LogSub(logits.data[(q(p) - 1) * N + neg_items.data[p] + 1],
                            SumSeq(RowOf(logits, q(p))))],
         dtype |-> "float"]

(* log(gather(logits, -1, neg_items) * num_neg) - log(logits.sum(-1))     *)
DenseNegProb(logits, neg_items, num_neg) ==
    LET N == Last(logits.shape)
        q(p) == ((p - 1) \div num_neg) + 1
    IN  [shape |-> neg_items.shape,
         data |-> [p \in 1..Len(neg_items.data) |->
                     LogSub(logits.data[(q(p) - 1) * N + neg_items.data[p] + 1] * num_neg,
                            SumSeq(RowOf(logits, q(p))))],
         dtype |-> "float"]

KernelSampler_forward(self, query, num_neg, pos_items, g) ==
    LET gl == KernelSampler_get_logits(self, query, g)
    IN  IF gl.err # "none"
        THEN [call |-> Call("forward", gl.err, query, num_neg, pos_items, <<>>, gl),
              rng |-> gl.rng]
        ELSE
        LET logits == Reshape(gl.out, <<-1, self.item_vec.lead[1]>>)
            mn == multinomial(logits, num_neg, gl.rng)
        IN  IF mn.err # "none"
            THEN [call |-> Call("forward", mn.err, query, num_neg, pos_items, <<>>, gl),
                  rng |-> mn.rng]
            ELSE
            LET neg_items == mn.out
                neg_prob == DenseNegProb(logits, neg_items, num_neg)
            IN  [call |-> Returned(query, num_neg, pos_items, pos_items.dtype,
                                   AddOne(Reshape(neg_items, query.lead \o <<-1>>)),
                                   Reshape(neg_prob, query.lead \o <<-1>>), gl),
                 rng |-> mn.rng]

KernelSamplerAppr_get_logits(self, query, sampled_items, g) ==
    IF self.cls = "SphereSamplerAppr"
    THEN SphereSamplerAppr_get_logits(self, query, sampled_items, g)
    ELSE RffSamplerAppr_get_logits(self, query, sampled_items, g)

KernelSamplerAppr_forward(self, query, num_neg, pos_items, g) ==
    LET num_queries == Prod(query.lead)
        ri == randint(self.num_items, <<num_queries, num_neg>>, g)
        neg_items == Reshape(ri.out, query.lead \o <<-1>>)
        gl == KernelSamplerAppr_get_logits(self, query, neg_items, ri.rng)
    IN  IF gl.err # "none"
        THEN [call |-> Call("forward", gl.err, query, num_neg, pos_items, <<>>, gl),
              rng |-> gl.rng]
        ELSE
        LET neg_prob == [shape |-> gl.out.shape,
                         data |-> [p \in 1..Len(gl.out.data) |->
                                     TorchLog(gl.out.data[p], gl.unit)],
                         dtype |-> "float"]
        IN  [call |-> Returned(query, num_neg, pos_items, "float",
                               AddOne(neg_items), neg_prob, gl),
             rng |-> gl.rng]

(* A faulty forward: the draws come from a generator of the sampler's     *)
(* own, which reseeding the process-wide one does not reset: it has moved *)
(* on once a forward call has been made.                                  *)
forward_private_generator(self, query, num_neg, pos_items, g) ==
    LET own == IF ret.op = "forward" THEN GenNext(g) ELSE g
    IN  IF self.cls \in DenseClasses
        THEN KernelSampler_forward(self, query, num_neg, pos_items, own)
        ELSE KernelSamplerAppr_forward(self, query, num_neg, pos_items, own)

forward(self, query, num_neg, pos_items, g) ==
    IF self.cls \in DenseClasses
    THEN KernelSampler_forward(self, query, num_neg, pos_items, g)
    ELSE KernelSamplerAppr_forward(self, query, num_neg, pos_items, g)

(* ------------------------------ the machine --------------------------- *)
Self == [cls |-> cls, scorer |-> scorer, num_items |-> num_items,
         attrs |-> attrs, item_vec |-> item_vec, kernel_item_vec |-> kernel_item_vec]

(* The table get_logits reads.                                            *)
Held(self) ==
    IF self.cls = "RffSamplerAppr" THEN self.kernel_item_vec ELSE self.item_vec

Tables(n) == {Tensor(<<n>>, rows) : rows \in [1..n -> Vecs]}

Queries == UNION {{Tensor(lead, rows) : rows \in [1..Prod(lead) -> Vecs]} : lead \in Leads}

PosChoices(query) ==
    {NoNT, [shape |-> query.lead,
            data |-> [p \in 1..Prod(query.lead) |-> ((p - 1) % num_items) + 1],
            dtype |-> "int"]}

NoTally == [updates |-> 0, forwards |-> 0, item_transforms |-> 0, query_transforms |-> 0]

(* The state after SomeSampler(num_items, scorer_fn).                     *)
Constructed(scorer_fns) ==
    \E c \in Classes, n \in 1..MaxItems, scorer_fn \in scorer_fns :
        LET made == Construct(c, n, scorer_fn)
        IN  /\ cls = c
            /\ alive = (made.err = "none")
            /\ scorer = made.scorer
            /\ num_items = made.num_items
            /\ ret = [NoCall EXCEPT !.op = "init", !.err = made.err]
            /\ attrs = {}
            /\ item_vec = NoVT
            /\ kernel_item_vec = NoVT
            /\ last_embs = NoVT
            /\ rng \in GenStates
            /\ prev = NoCall
            /\ tally = NoTally

Init == Constructed({"InnerProductScorer"})

InitAnyScorer == Constructed(Scorers)

Update(item_embs) ==
    LET up == update(Self, item_embs, rng)
    IN  /\ attrs' = up.self.attrs
        /\ item_vec' = up.self.item_vec
        /\ kernel_item_vec' = up.self.kernel_item_vec
        /\ rng' = up.rng
        /\ last_embs' = item_embs
        /\ ret' = [NoCall EXCEPT !.op = "update", !.kcalls = up.kcalls,
                                     !.table = Held(Self), !.rng0 = rng]
        /\ UNCHANGED <<cls, scorer, num_items, alive>>

ForwardFrom(g, query, num_neg, pos_items) ==
    LET fw == forward(Self, query, num_neg, pos_items, g)
    IN  /\ ret' = [fw.call EXCEPT !.rng0 = g]
        /\ rng' = fw.rng
        /\ UNCHANGED <<cls, scorer, num_items, alive, attrs, item_vec,
                       kernel_item_vec, last_embs>>

(* The training loop is synchronous: it takes what a call returned (a     *)
(* negative sample set is consumed by the loss at once and never kept)    *)
(* before it makes the next call.                                         *)
Idle == ret.op \in {"init", "none"}

Consume ==
    /\ ~Idle
    /\ ret' = NoCall
    /\ UNCHANGED <<cls, scorer, num_items, alive, attrs, item_vec, kernel_item_vec,
                   rng, prev, tally, last_embs>>

UpdateCall ==
    /\ alive /\ Idle
    /\ \E item_embs \in Tables(num_items) : Update(item_embs)
    /\ UNCHANGED <<prev, tally>>

ForwardCall ==
    /\ alive /\ Idle
    /\ \E query \in Queries, num_neg \in 1..MaxNeg :
          \E pos_items \in PosChoices(query) :
             ForwardFrom(rng, query, num_neg, pos_items)
    /\ UNCHANGED <<prev, tally>>

Next == UpdateCall \/ ForwardCall \/ Consume

Spec == Init /\ [][Next]_vars

(* The same calls on a sampler constructed with whatever scorer.          *)
SpecAnyScorer == InitAnyScorer /\ [][Next]_vars

(* Seeded runs: updates and torch.manual_seed calls, then a forward call, *)
(* then the same query and num_neg once more after a manual_seed that     *)
(* puts the generator back in the state the first call started from.      *)
(* prev keeps the first call.                                             *)
Reseed ==
    /\ alive /\ prev.op = "none" /\ Idle
    /\ \E seed \in GenStates : rng' = seed
    /\ UNCHANGED <<cls, scorer, num_items, alive, attrs, item_vec, kernel_item_vec,
                   ret, prev, tally, last_embs>>

SeedUpdate ==
    /\ alive /\ prev.op = "none" /\ Idle
    /\ \E item_embs \in Tables(num_items) : Update(item_embs)
    /\ UNCHANGED <<prev, tally>>

SeedForward ==
    /\ alive /\ prev.op = "none" /\ Idle
    /\ \E query \in Queries, num_neg \in 1..MaxNeg :
          \E pos_items \in PosChoices(query) :
             ForwardFrom(rng, query, num_neg, pos_items)
    /\ prev' = ret'
    /\ UNCHANGED tally

SeedRepeat ==
    /\ alive /\ prev.op = "forward" /\ ret = prev
    /\ \E pos_items \in PosChoices(prev.query) :
          ForwardFrom(prev.rng0, prev.query, prev.num_neg, pos_items)
    /\ UNCHANGED <<prev, tally>>

SeedConsume == prev.op = "none" /\ Consume

NextSeed == Reseed \/ SeedUpdate \/ SeedForward \/ SeedRepeat \/ SeedConsume

SpecSeed == Init /\ [][NextSeed]_vars

(* Counted runs of an RffSamplerAppr: tally adds up the calls made and    *)
(* the kernel transforms each call reports.                               *)
Count(what, kcalls) == Cardinality({i \in 1..Len(kcalls) : kcalls[i] = what})

Tallied(op) ==
    tally' = [updates |-> tally.updates + (IF op = "update" THEN 1 ELSE 0),
              forwards |-> tally.forwards + (IF op = "forward" THEN 1 ELSE 0),
              item_transforms |-> tally.item_transforms + Count("item", ret'.kcalls),
              query_transforms |-> tally.query_transforms + Count("query", ret'.kcalls)]

InitCount == Init /\ cls = "RffSamplerAppr"

CountUpdate ==
    /\ alive /\ Idle /\ tally.updates < MaxCalls
    /\ \E item_embs \in Tables(num_items) : Update(item_embs)
    /\ Tallied("update")
    /\ UNCHANGED prev

CountForward ==
    /\ alive /\ Idle /\ tally.forwards < MaxCalls
    /\ \E query \in Queries : ForwardFrom(rng, query, 1, NoNT)
    /\ Tallied("forward")
    /\ UNCHANGED prev

NextCount == CountUpdate \/ CountForward \/ Consume

SpecCount == InitCount /\ [][NextCount]_vars

(* ------------------------------ the claims ---------------------------- *)
Updated == "item_vec" \in attrs

Sampled == ret.op = "forward" /\ ret.err = "none"

NegItemsOf(c) == c.out[Len(c.out) - 1]

NegProbOf(c) == c.out[Len(c.out)]

(* C1: after any updates, forward(query, num_neg = k) of every variant    *)
(* returns negative IDs shaped as the query's leading dimensions followed *)
(* by k, each ID in [1, num_items].                                       *)
C1_ForwardReturnsKIdsInRange ==
    (ret.op = "forward" /\ Updated) =>
        /\ ret.err = "none"
        /\ NegItemsOf(ret).shape = ret.query.lead \o <<ret.num_neg>>
        /\ Len(NegItemsOf(ret).data) = Prod(ret.query.lead) * ret.num_neg
        /\ \A p \in 1..Len(NegItemsOf(ret).data) :
              NegItemsOf(ret).data[p] \in 1..num_items

(* C2: forward on an instance that update never touched fails with the    *)
(* dedicated PreconditionError, checked before anything is sampled or     *)
(* drawn.                                                                 *)
C2_ForwardBeforeUpdateIsPreconditionError ==
    (ret.op = "forward" /\ ~Updated) =>
        /\ ret.err = "PreconditionError"
        /\ rng = ret.rng0
        /\ ret.kcalls = <<>>

(* C3: no sampler instance holding a scorer that is not an inner-product  *)
(* scorer exists, so none reaches update or forward.                      *)
C3_NonInnerProductScorerRejected ==
    (alive /\ ret.op \in {"update", "forward"}) => scorer = "InnerProductScorer"

(* C4: the item representation is the one derived from the most recent    *)
(* update's item_embeddings alone (for RffSamplerAppr both item_vec and   *)
(* kernel_item_vec), and a forward call computes its logits from it.      *)
C4_TableIsFromLastUpdate ==
    /\ ~Updated => (item_vec = NoVT /\ kernel_item_vec = NoVT /\ last_embs = NoVT)
    /\ (Updated /\ cls \in {"SphereSampler", "SphereSamplerAppr"}) =>
          (item_vec = last_embs /\ kernel_item_vec = NoVT)
    /\ (Updated /\ cls = "RFFSampler") =>
          /\ \E g \in GenStates :
                item_vec = kernel_vec(last_embs, Nu, NumRandomFeatures, g).out
          /\ kernel_item_vec = NoVT
    /\ (Updated /\ cls = "RffSamplerAppr") =>
          /\ item_vec = last_embs
          /\ \E g \in GenStates : kernel_item_vec = kernel_func(last_embs, g).out
    /\ (ret.op = "forward" /\ Updated) => ret.table = Held(Self)

(* An update has replaced an earlier, different table, in a class that    *)
(* keeps two tables.                                                      *)
C4_Witness ==
    /\ cls = "RffSamplerAppr"
    /\ ret.op = "update"
    /\ ret.table # NoVT
    /\ ret.table # kernel_item_vec
    /\ \E i \in 1..Len(last_embs.rows) : IsZero(last_embs.rows[i])

(* C7: an approximate sampler's forward over Q rows with num_neg = k      *)
(* draws every index from [0, num_items) and runs the scorer on exactly   *)
(* the Q*k pairs (row, item sampled for that row), in order.              *)
C7_ApprScoresOnlySampledPairs ==
    (Sampled /\ cls \in ApprClasses) =>
        LET ids == NegItemsOf(ret).data
            k == ret.num_neg
            Q == Prod(ret.query.lead)
        IN  /\ Len(ids) = Q * k
            /\ Len(ret.logits.pairs) = Q * k
            /\ \A p \in 1..(Q * k) :
                  /\ ids[p] - 1 \in 0..(num_items - 1)
                  /\ ret.logits.pairs[p] = <<(p - 1) \div k, ids[p] - 1>>

(* Two rows, two negatives each: a row that drew the same item twice, so  *)
(* that another item of the table is never scored for it, and rows that   *)
(* drew different items.                                                  *)
C7_Witness ==
    /\ Sampled /\ cls = "SphereSamplerAppr"
    /\ scorer = "InnerProductScorer"
    /\ num_items = MaxItems
    /\ ret.query.lead = <<2>> /\ ret.num_neg = 2
    /\ NegItemsOf(ret).data[1] = NegItemsOf(ret).data[2]
    /\ NegItemsOf(ret).data[1] # NegItemsOf(ret).data[3]

(* C8: every entry of the proposal-weight matrix a dense sampler hands to *)
(* multinomial is strictly positive; SphereSampler's are                  *)
(* 100 * similarity^2 + 1, at least 1.                                    *)
C8_DenseWeightsPositive ==
    (ret.op = "forward" /\ Updated /\ cls \in DenseClasses) =>
        /\ \A p \in 1..Len(ret.logits.data) : ret.logits.data[p] > 0
        /\ cls = "SphereSampler" =>
              \A p \in 1..Len(ret.logits.data) :
                 LET pr == ret.logits.pairs[p]
                     sim == Dot(ret.query.rows[pr[1] + 1], item_vec.rows[pr[2] + 1])
                 IN  ret.logits.data[p] = 100 * sim * sim + 1 /\ ret.logits.data[p] >= 1

(* C9: in a dense sampler's forward, the log-weight at row q, position j  *)
(* is log(w * num_neg) - log(S): w the weight, in row q, of the item      *)
(* whose ID is returned there, S the sum of row q's weights.              *)
C9_DenseLogWeight ==
    (Sampled /\ cls \in DenseClasses) =>
        LET ids == NegItemsOf(ret).data
            lw == NegProbOf(ret).data
            k == ret.num_neg
            N == Len(item_vec.rows)
            W(q) == SubSeq(ret.logits.data, (q - 1) * N + 1, q * N)
        IN  /\ Len(lw) = Len(ids)
            /\ \A p \in 1..Len(ids) :
                  LET q == ((p - 1) \div k) + 1
                      w == W(q)[ids[p]]
                  IN  /\ lw[p].kind = "finite"
                      /\ lw[p].num * SumSeq(W(q)) = w * k * lw[p].den

(* Two rows, two negatives each, and a drawn item whose weight is above   *)
(* the floor of 1 in a row of unequal weights.                            *)
C9_Witness ==
    /\ Sampled /\ cls = "SphereSampler"
    /\ ret.num_neg = 2 /\ num_items = MaxItems
    /\ ret.query.lead = <<2>>
    /\ \E p \in 1..Len(NegProbOf(ret).data) :
          /\ NegProbOf(ret).data[p].num > 2
          /\ NegProbOf(ret).data[p].den # NegProbOf(ret).data[p].num

(* C5: with positive_items, forward returns (placeholder, negative IDs,   *)
(* log-weights), the placeholder shaped like positive_items and zero      *)
(* everywhere; without, only (negative IDs, log-weights); and the         *)
(* negatives are the same either way.                                     *)
C5_PositivePlaceholder ==
    /\ Sampled =>
          IF ret.pos_items # NoNT
          THEN /\ Len(ret.out) = 3
               /\ ret.out[1].shape = ret.pos_items.shape
               /\ Len(ret.out[1].data) = Len(ret.pos_items.data)
               /\ \A p \in 1..Len(ret.out[1].data) : ret.out[1].data[p] = 0
          ELSE Len(ret.out) = 2
    /\ (prev.op = "forward" /\ ret.op = "forward" /\ ret.rng0 = prev.rng0) =>
          /\ ret.err = prev.err
          /\ ret.err = "none" =>
                (NegItemsOf(ret) = NegItemsOf(prev) /\ NegProbOf(ret) = NegProbOf(prev))

(* The same call made with and without positive items, from one seed.     *)
C5_Witness ==
    /\ prev.op = "forward" /\ Sampled /\ ret.rng0 = prev.rng0
    /\ prev.pos_items = NoNT /\ ret.pos_items # NoNT
    /\ ret.pos_items.shape = <<2>>
    /\ Len(prev.out) = 2 /\ Len(ret.out) = 3

C10_TransformCounts ==
    (cls = "RffSamplerAppr") =>
        /\ tally.item_transforms = tally.updates
        /\ tally.query_transforms = tally.forwards
        /\ ret.op = "update" => ret.kcalls = <<"item">>
        /\ ret.op = "forward" => ret.kcalls = <<"query">>
        /\ Sampled => ret.table = kernel_item_vec

C10_Witness ==
    /\ cls = "RffSamplerAppr"
    /\ tally.updates = 2 /\ tally.forwards = 2
    /\ tally.item_transforms = 2 /\ tally.query_transforms = 2
    /\ Sampled

====
